---- MODULE Spec2Model ----
(***************************************************************************)
(* Argus call-graph preview of the Recon extension: the editor shell       *)
(* (ArgusCallGraphEditorProvider.resolveCustomTextEditor), the pipeline    *)
(* generateCallGraph, its AST cache, the path resolver and the per-contract *)
(* pass.                                                                   *)
(***************************************************************************)
EXTENDS Integers, Sequences, FiniteSets, TLC

\* ---------------------------------------------------------------- bounds
MaxGen == 2          \* generations started in one behaviour
MaxClock == 3        \* last modification time the file system hands out
MaxBuilds == 1       \* rebuild commands pending at once
MaxUnits == 3        \* SourceUnits handed to the resolver
MaxContracts == 3    \* contracts of the target unit in one pass
MaxDepth == 5        \* call path length at which the model stops expanding

Undefined == "<undefined>"
NoFile == "<null>"

VARIABLES
  \* editor shell (closure state of resolveCustomTextEditor)
  settings, genToken, lastPrimaryContract, html, handle, builds, gens, lastResult,
  \* file system and the module-level AST cache
  dirExists, dir, clock, astCache, parseCount, lastCall,
  \* resolver inputs and output
  rsSep, rsAsts, rsTarget, rsPc, rsOut, rsResult,
  \* contract pass inputs and output
  psContracts, psIncludeAll, psPc, psOut,
  \* call tree builder
  trCalls, trRoot, trWork, trNodes, trPc,
  \* exportImage handler: the base directory, the message, its locals, its effects
  exDisk, exDisk0, exIn, ex, exLog,
  \* pipeline runs one after the other: the current call, the number of calls,
  \* a completed run kept for comparison, the run completed last
  rnRun, rnCount, rnRef, rnLast,
  \* the debounce closure on a time line: the time, when the timer is due, the
  \* calls and the starts so far
  tmNow, tmDueAt, tmLog,
  \* exportImage handlers running at the same time: the base directory, the
  \* locals of each handler, the writes that landed
  cxDisk, cx, cxLog,
  \* the panel of the editor has been disposed
  disposed,
  \* Contracts view (ReconContractsViewProvider): the configuration in memory,
  \* recon.json, the two save fields, the save, the watcher events and the
  \* reload in progress, the values the user set last, the messages so far
  viewContracts, reconJson, isStateSaving, saveStateTimeout, saving, watchEvents, loading,
  lastSet, msgCount

shellVars == <<settings, genToken, lastPrimaryContract, html, handle, builds, gens, lastResult>>
fsVars == <<dirExists, dir, clock, astCache, parseCount, lastCall>>
rsVars == <<rsSep, rsAsts, rsTarget, rsPc, rsOut, rsResult>>
psVars == <<psContracts, psIncludeAll, psPc, psOut>>
trVars == <<trCalls, trRoot, trWork, trNodes, trPc>>
exVars == <<exDisk, exDisk0, exIn, ex, exLog>>
rnVars == <<rnRun, rnCount, rnRef, rnLast>>
tmVars == <<tmNow, tmDueAt, tmLog>>
cxVars == <<cxDisk, cx, cxLog>>
rcVars == <<viewContracts, reconJson, isStateSaving, saveStateTimeout, saving, watchEvents, loading,
            lastSet, msgCount>>
moreVars == <<cxVars, disposed, rcVars>>
auxVars == <<exVars, rnVars, tmVars, moreVars>>
vars == <<shellVars, fsVars, rsVars, psVars, trVars, auxVars>>

\* ------------------------------------------------------------------ paths
\* A path string is its segments and the separator that joins them; segment
\* names hold no separator.  "fwd" is '/', "back" is '\'.
Path(segs, sep) == [segs |-> segs, sep |-> sep]

Last(s) == s[Len(s)]

\* equality of the two strings
StrEq(a, b) == a.segs = b.segs /\ (a.sep = b.sep \/ Len(a.segs) <= 1)

\* p.split(path.sep).join('/')
normalizePath(p, pathSep) ==
  IF p.sep = pathSep THEN Path(p.segs, "fwd") ELSE p

\* path.basename: POSIX splits on '/' only, win32 on both separators
basename(p, pathSep) ==
  IF pathSep = "fwd" /\ p.sep = "back" /\ Len(p.segs) > 1
    THEN p
    ELSE Path(<<Last(p.segs)>>, "fwd")

\* u.endsWith('/' + x)
EndsWithSlash(u, x) ==
  /\ u.sep = "fwd"
  /\ Len(x.segs) = 1 \/ x.sep = "fwd"
  /\ Len(u.segs) >= Len(x.segs) + 1
  /\ SubSeq(u.segs, Len(u.segs) - Len(x.segs) + 1, Len(u.segs)) = x.segs

\* a.startsWith(root + '/') for a normalised root
StartsWithDir(a, root) ==
  /\ a.sep = "fwd"
  /\ Len(root.segs) = 1 \/ root.sep = "fwd"
  /\ Len(a.segs) > Len(root.segs)
  /\ SubSeq(a.segs, 1, Len(root.segs)) = root.segs

workspaceRoot(pathSep) == Path(<<"", "ws">>, pathSep)

targetPathAbs(filePath, pathSep) == normalizePath(filePath, pathSep)

targetPathRel(filePath, pathSep) ==
  LET abs == targetPathAbs(filePath, pathSep)
      root == normalizePath(workspaceRoot(pathSep), pathSep)
  IN IF StartsWithDir(abs, root)
       THEN Path(SubSeq(abs.segs, Len(root.segs) + 1, Len(abs.segs)), "fwd")
       ELSE abs

pathMatches(unitPath, abs, rel, pathSep) ==
  \/ StrEq(unitPath, abs)
  \/ StrEq(unitPath, rel)
  \/ EndsWithSlash(unitPath, basename(abs, pathSep))
  \/ EndsWithSlash(unitPath, basename(rel, pathSep))

\* asts.find(u => pathMatches(...)): index of the first matching unit, 0 if none
FindTargetUnit(asts, filePath, pathSep) ==
  LET abs == targetPathAbs(filePath, pathSep)
      rel == targetPathRel(filePath, pathSep)
      hits == {i \in 1..Len(asts) :
                 pathMatches(normalizePath(asts[i].absolutePath, pathSep), abs, rel, pathSep)}
  IN IF hits = {} THEN 0 ELSE CHOOSE i \in hits : \A j \in hits : i <= j

\* ------------------------------------------------------- GenerationResult
NoHtml == [kind |-> "none", msg |-> "", showBuild |-> FALSE, detail |-> <<>>,
           contract |-> "", includeAll |-> FALSE]

StubWithoutBuild(msg, detail, showBuild) ==
  [html |-> [kind |-> "stub", msg |-> msg, showBuild |-> FALSE, detail |-> detail,
             contract |-> "", includeAll |-> FALSE],
   contracts |-> <<>>, errors |-> <<>>, empty |-> TRUE,
   primaryContractName |-> Undefined, rejected |-> FALSE]

\* stub(message, showBuild): contracts [], errors [], empty true, no primary name
stub(msg, detail, showBuild) ==
  [html |-> [kind |-> "stub", msg |-> msg, showBuild |-> showBuild, detail |-> detail,
             contract |-> "", includeAll |-> FALSE],
   contracts |-> <<>>, errors |-> <<>>, empty |-> TRUE,
   primaryContractName |-> Undefined, rejected |-> FALSE]

\* the result built by the outer catch of generateCallGraph
ArgusError(msg) ==
  [html |-> [kind |-> "argusError", msg |-> msg, showBuild |-> FALSE, detail |-> <<>>,
             contract |-> "", includeAll |-> FALSE],
   contracts |-> <<>>, errors |-> <<msg>>, empty |-> TRUE,
   primaryContractName |-> Undefined, rejected |-> FALSE]

\* a rejected promise (no GenerationResult)
Rejected(msg) ==
  [html |-> NoHtml, contracts |-> <<>>, errors |-> <<msg>>, empty |-> TRUE,
   primaryContractName |-> Undefined, rejected |-> TRUE]

CatchNone(thrown) == Rejected(thrown)

\* outer try/catch of generateCallGraph: a throw of any stage becomes a result
CatchAll(thrown) == ArgusError(thrown)

\* ----------------------------------------------------------- contract pass
StateChanging(f) == f.mut \notin {"view", "pure"}

\* processContract(contract, includeAll, includeDeps): the root functions kept
\* by the mutability filter; a malformed contract makes it throw
processContract(contract, includeAll, includeDeps) ==
  [threw |-> contract.throws = "process",
   vFunctions |-> SelectSeq(contract.funcs, LAMBDA f : includeAll \/ StateChanging(f))]

EligibleAny(contract) == TRUE

\* the guard of the loop body
Eligible(contract) ==
  ~ (~ contract.fullyImplemented \/ contract.abstract \/ contract.kind # "contract")

\* the entry pushed on the contracts list
ContractEntry(contract, processed) ==
  [name |-> contract.name,
   functions |-> [i \in 1..Len(processed.vFunctions) |-> processed.vFunctions[i].name]]

FallThrough(contract, contracts, errors, includeAll) ==
  [html |-> [kind |-> "unknown", msg |-> "Unknown state", showBuild |-> FALSE,
             detail |-> <<>>, contract |-> "", includeAll |-> FALSE],
   contracts |-> contracts, errors |-> errors, empty |-> FALSE,
   primaryContractName |-> contracts[1].name, rejected |-> FALSE]

\* the return statement inside the loop
GraphResult(contract, contracts, errors, includeAll) ==
  [html |-> [kind |-> "graph", msg |-> "", showBuild |-> FALSE, detail |-> <<>>,
             contract |-> contract.name, includeAll |-> includeAll],
   contracts |-> contracts, errors |-> errors, empty |-> Len(contracts) = 0,
   primaryContractName |-> contracts[1].name, rejected |-> FALSE]

\* the result returned when the loop ends without rendering a contract
AfterLoop(contracts, errors) ==
  IF Len(contracts) = 0
    THEN stub("No non-abstract contracts with eligible functions in this file.", <<>>, FALSE)
    ELSE [html |-> [kind |-> "unknown", msg |-> "Unknown state", showBuild |-> FALSE,
                    detail |-> <<>>, contract |-> "", includeAll |-> FALSE],
          contracts |-> contracts, errors |-> errors, empty |-> FALSE,
          primaryContractName |-> contracts[1].name, rejected |-> FALSE]

\* what one iteration of the loop does with contract c: "skip", "throw" or "render"
Iteration(c, includeAll, includeDeps) ==
  LET processed == processContract(c, includeAll, includeDeps)
  IN IF ~ Eligible(c) THEN "skip"
     ELSE IF processed.threw THEN "throw"
     ELSE IF Len(processed.vFunctions) = 0 THEN "skip"
     ELSE IF c.throws = "render" THEN "throw"
     ELSE "render"

RECURSIVE PassFromAbort(_, _, _, _, _, _)
PassFromAbort(cs, i, contracts, errors, includeAll, includeDeps) ==
  IF i > Len(cs) THEN AfterLoop(contracts, errors)
  ELSE LET it == Iteration(cs[i], includeAll, includeDeps)
           entry == ContractEntry(cs[i], processContract(cs[i], includeAll, includeDeps))
       IN IF it = "render"
            THEN GraphResult(cs[i], Append(contracts, entry), errors, includeAll)
          ELSE IF it = "throw"
            THEN AfterLoop(contracts, Append(errors, cs[i].errMsg))
          ELSE PassFromAbort(cs, i + 1, contracts, errors, includeAll, includeDeps)

RECURSIVE PassFrom(_, _, _, _, _, _)
\* for (const contract of ...) { ... } from the i-th contract on
PassFrom(cs, i, contracts, errors, includeAll, includeDeps) ==
  IF i > Len(cs) THEN AfterLoop(contracts, errors)
  ELSE LET it == Iteration(cs[i], includeAll, includeDeps)
           entry == ContractEntry(cs[i], processContract(cs[i], includeAll, includeDeps))
       IN IF it = "render"
            THEN GraphResult(cs[i], Append(contracts, entry), errors, includeAll)
          ELSE IF it = "throw"
            THEN PassFrom(cs, i + 1, contracts, Append(errors, cs[i].errMsg),
                          includeAll, includeDeps)
          ELSE PassFrom(cs, i + 1, contracts, errors, includeAll, includeDeps)

RunPassDefaultRoots(cs, includeAll, includeDeps) ==
  PassFrom(cs, 1, <<>>, <<>>, FALSE, includeDeps)

\* the pass over the contracts of the target unit with the caller's toggles
RunPass(cs, includeAll, includeDeps) == PassFrom(cs, 1, <<>>, <<>>, includeAll, includeDeps)

\* --------------------------------------------------- artifacts on the disk
Fn(name, mut) == [name |-> name, mut |-> mut]

Contract(name, kind, abstract, full, funcs, throws) ==
  [name |-> name, kind |-> kind, abstract |-> abstract, fullyImplemented |-> full,
   funcs |-> funcs, throws |-> throws, errMsg |-> "expansion of " \o name \o " failed"]

Vault == Contract("Vault", "contract", FALSE, TRUE,
                  <<Fn("deposit", "nonpayable"), Fn("balanceOf", "view")>>, "none")
Token == Contract("Token", "contract", FALSE, TRUE, <<Fn("mint", "payable")>>, "none")
Broken == Contract("Broken", "contract", FALSE, TRUE, <<Fn("run", "nonpayable")>>, "process")
Unrenderable == Contract("Unrenderable", "contract", FALSE, TRUE,
                         <<Fn("peek", "pure")>>, "render")
IVault == Contract("IVault", "interface", FALSE, FALSE, <<Fn("deposit", "nonpayable")>>, "none")
Base == Contract("Base", "contract", TRUE, FALSE, <<Fn("init", "nonpayable")>>, "none")
Views == Contract("Views", "contract", FALSE, TRUE, <<Fn("get", "view")>>, "none")
Math == Contract("Math", "library", FALSE, TRUE, <<Fn("add", "nonpayable")>>, "none")

Unit(p, contracts) == [absolutePath |-> p, contracts |-> contracts]

\* one entry of output.sources: its key, whether it carries .ast, whether the
\* AST reader can read that AST, and the SourceUnit it reads to
Entry(key, hasAst, parseable, contracts) ==
  [key |-> key, hasAst |-> hasAst, parseable |-> parseable, unit |-> Unit(key, contracts)]

SrcA == Path(<<"src", "A.sol">>, "fwd")
SrcB == Path(<<"src", "B.sol">>, "fwd")

\* the artifact contents the build can leave on the disk
Artifact(json, sources) == [json |-> json, sources |-> sources]

Contents ==
  << Artifact("invalid", <<>>),
     Artifact("null", <<>>),
     Artifact("object", <<>>),
     Artifact("object", <<Entry(SrcA, TRUE, TRUE, <<Vault>>)>>),
     Artifact("object", <<Entry(SrcA, TRUE, TRUE, <<Broken, Token>>),
                          Entry(SrcB, TRUE, FALSE, <<>>)>>),
     Artifact("object", <<Entry(SrcB, FALSE, TRUE, <<>>),
                          Entry(SrcA, TRUE, TRUE, <<Broken, Views>>)>>) >>

ContentIds == 1..Len(Contents)

Files == {"a.json", "b.json"}

Absent == [mtime |-> 0, content |-> 0]

\* document.uri.fsPath of the previewed file
DocPath == Path(<<"", "ws", "src", "A.sol">>, "fwd")
PlatformSep == "fwd"

\* ------------------------------------------------------------ AST loader
findOldestBuildInfoFile(exists, d) ==
  LET jsonFiles == {f \in Files : d[f] # Absent}
  IN IF ~ exists \/ jsonFiles = {} THEN NoFile
     ELSE CHOOSE f \in jsonFiles : \A g \in jsonFiles : d[f].mtime <= d[g].mtime

\* fs.existsSync / readdir / stat / sort by mtime descending, first file
\* (null when the directory is missing or holds no .json file)
findLatestBuildInfoFile(exists, d) ==
  LET jsonFiles == {f \in Files : d[f] # Absent}
  IN IF ~ exists \/ jsonFiles = {} THEN NoFile
     ELSE CHOOSE f \in jsonFiles : \A g \in jsonFiles : d[g].mtime <= d[f].mtime

NoCache == [file |-> NoFile, mtimeMs |-> 0, asts |-> <<>>, sourceKeys |-> <<>>]

\* the entries copied into solcSources: those that carry an .ast
SolcSources(sections) == SelectSeq(sections, LAMBDA e : e.hasAst)

KeysOf(sections) == [i \in 1..Len(sections) |-> sections[i].key]

\* reader.read({sources}) inside try/catch: the reader reads the whole batch
\* or throws, and a throw leaves asts = []
ReaderRead(solcSources) ==
  IF \E i \in 1..Len(solcSources) : ~ solcSources[i].parseable
    THEN <<>>
    ELSE [i \in 1..Len(solcSources) |-> solcSources[i].unit]

CacheHitFileOnly(cache, latestFile, mtime) ==
  mtime # 0 /\ cache # NoCache /\ cache.file = latestFile

\* the cache test of getCachedOrReadAsts; mtime 0 is a failed stat
CacheHit(cache, latestFile, mtime) ==
  mtime # 0 /\ cache # NoCache /\ cache.file = latestFile /\ cache.mtimeMs = mtime

\* getCachedOrReadAsts(latestFile, sourcesSection) with the stat result mtime
getCachedOrReadAsts(cache, latestFile, sections, mtime) ==
  IF CacheHit(cache, latestFile, mtime)
    THEN [asts |-> cache.asts, debugSourceKeys |-> cache.sourceKeys,
          cache |-> cache, read |-> FALSE]
    ELSE LET solcSources == SolcSources(sections)
             asts == ReaderRead(solcSources)
         IN [asts |-> asts, debugSourceKeys |-> KeysOf(solcSources),
             cache |-> IF mtime # 0
                         THEN [file |-> latestFile, mtimeMs |-> mtime, asts |-> asts,
                               sourceKeys |-> KeysOf(solcSources)]
                         ELSE cache,
             read |-> TRUE]

ResolveOnWithoutListing(loaded, sections, opts, pathSep) ==
  IF Len(loaded.asts) = 0
    THEN stub("No ASTs parsed from build-info.",
              IF Len(loaded.debugSourceKeys) > 0 THEN loaded.debugSourceKeys
                                                  ELSE KeysOf(sections), TRUE)
    ELSE LET i == FindTargetUnit(loaded.asts, opts.filePath, pathSep)
         IN IF i = 0
              THEN stub("Current file not present in latest build-info. Save & rebuild?",
                        <<>>, TRUE)
              ELSE RunPass(loaded.asts[i].contracts, opts.includeAll, opts.includeDeps)

\* generateCallGraph from the check of asts to its return, on a platform
\* whose path.sep is pathSep
ResolveOn(loaded, sections, opts, pathSep) ==
  IF Len(loaded.asts) = 0
    THEN stub("No ASTs parsed from build-info.",
              IF Len(loaded.debugSourceKeys) > 0 THEN loaded.debugSourceKeys
                                                  ELSE KeysOf(sections), TRUE)
    ELSE LET i == FindTargetUnit(loaded.asts, opts.filePath, pathSep)
         IN IF i = 0
              THEN stub("Current file not present in latest build-info. Save & rebuild?",
                        [k \in 1..Len(loaded.asts) |->
                           normalizePath(loaded.asts[k].absolutePath, pathSep)], TRUE)
              ELSE RunPass(loaded.asts[i].contracts, opts.includeAll, opts.includeDeps)

Resolve(loaded, sections, opts) == ResolveOn(loaded, sections, opts, PlatformSep)

\* generateCallGraph from the parsed artifact to the check of output.sources:
\* "stub", "throw" (TypeError on null, caught by the outer catch) or "load"
AfterParse(content) ==
  IF content.json = "invalid" THEN "stubRead"
  ELSE IF content.json = "null" THEN "throw"
  ELSE IF Len(content.sources) = 0 THEN "stubSources"
  ELSE "load"

\* ------------------------------------------------------------ editor shell
NoResult ==
  [html |-> NoHtml, contracts |-> <<>>, errors |-> <<>>, empty |-> TRUE,
   primaryContractName |-> Undefined, rejected |-> FALSE]

\* what the webview shows: the body and the two checkboxes; gen and opts name
\* the generation whose result is shown and the options it ran with
Surface(kind, body, st, gen, opts) ==
  [kind |-> kind, body |-> body, includeAll |-> st.includeAll,
   includeDeps |-> st.includeDeps, gen |-> gen, opts |-> opts]

NoSettings == [includeAll |-> FALSE, includeDeps |-> FALSE]

getLoadingHtml == Surface("loading", NoHtml, NoSettings, 0, NoSettings)
BuildingHtml == Surface("building", NoHtml, NoSettings, 0, NoSettings)
getHtml(st, body, gen, opts) == Surface("page", body, st, gen, opts)

\* a generation: its position in updateWebview / generateCallGraph, the options
\* it was called with and what it has read so far (its locals, gone once it
\* has completed).  stale: a regeneration was requested after it started;
\* applied: its result was written to the webview; late: when it completed,
\* the result of a later generation was on the surface
IdleGen ==
  [pc |-> "idle", includeAll |-> FALSE, includeDeps |-> FALSE, latest |-> NoFile,
   raw |-> 0, stale |-> FALSE, applied |-> FALSE, late |-> FALSE]

DoneGen(g, applied, late) ==
  [IdleGen EXCEPT !.pc = "done", !.stale = g.stale, !.applied = applied, !.late = late]

StartedGenWithDefaults(st) == [IdleGen EXCEPT !.pc = "find"]

StartedGen(st) ==
  [IdleGen EXCEPT !.pc = "find", !.includeAll = st.includeAll, !.includeDeps = st.includeDeps]

Tokens == 1..MaxGen

AlwaysLatest(token, current) == TRUE

\* if (token !== genToken) return;
IsLatest(token, current) == ~ (token # current)

Falsy(x) == x = Undefined \/ x = ""

\* const token = ++genToken; html = loading; generateCallGraph({...}) is called
updateWebview ==
  /\ genToken < MaxGen
  /\ genToken' = genToken + 1
  /\ html' = getLoadingHtml
  /\ gens' = [gens EXCEPT ![genToken + 1] = StartedGen(settings)]

\* the rest of updateWebview once generateCallGraph has settled with result
Complete(t, result) ==
  /\ lastResult' = result
  /\ IF result.rejected \/ ~ IsLatest(t, genToken)
       THEN /\ gens' = [gens EXCEPT ![t] =
                          DoneGen(@, FALSE, html.kind = "page" /\ html.gen > t)]
            /\ UNCHANGED <<html, lastPrimaryContract>>
       ELSE /\ gens' = [gens EXCEPT ![t] = DoneGen(@, TRUE, FALSE)]
            /\ lastPrimaryContract' = IF Falsy(result.primaryContractName)
                                        THEN lastPrimaryContract
                                        ELSE result.primaryContractName
            /\ html' = getHtml(settings, result.html, t,
                               [includeAll |-> gens[t].includeAll,
                                includeDeps |-> gens[t].includeDeps])
  /\ UNCHANGED <<settings, genToken, handle, builds>>

\* debounce(updateWebview, 300): (re)arm the timer; every generation started
\* so far is from now on older than the latest request
scheduleUpdate ==
  /\ handle' = TRUE
  /\ gens' = [t \in Tokens |-> IF gens[t].pc = "idle" THEN gens[t]
                                ELSE [gens[t] EXCEPT !.stale = TRUE]]

OtherVars == <<rsVars, psVars, trVars, auxVars>>

\* onDidChangeTextDocument of the previewed document
DocChange ==
  /\ scheduleUpdate
  /\ UNCHANGED <<settings, genToken, lastPrimaryContract, html, builds, lastResult>>
  /\ UNCHANGED <<fsVars, OtherVars>>

\* message updateSetting {key, value}
UpdateSetting(key, value) ==
  /\ key \in DOMAIN settings
  /\ settings' = [settings EXCEPT ![key] = value]
  /\ scheduleUpdate
  /\ UNCHANGED <<genToken, lastPrimaryContract, html, builds, lastResult>>
  /\ UNCHANGED <<fsVars, OtherVars>>

\* message runBuild: interim message, then the build command is started
RunBuild ==
  /\ builds < MaxBuilds
  /\ html' = BuildingHtml
  /\ builds' = builds + 1
  /\ UNCHANGED <<settings, genToken, lastPrimaryContract, handle, gens, lastResult>>
  /\ UNCHANGED <<fsVars, OtherVars>>

\* executeCommand('recon.buildWithInfo') fulfils: .then(() => scheduleUpdate())
BuildDone ==
  /\ builds > 0
  /\ builds' = builds - 1
  /\ scheduleUpdate
  /\ UNCHANGED <<settings, genToken, lastPrimaryContract, html, lastResult>>
  /\ UNCHANGED <<fsVars, OtherVars>>

\* the debounce timer fires: updateWebview()
TimerFire ==
  /\ handle
  /\ handle' = FALSE
  /\ updateWebview
  /\ UNCHANGED <<settings, lastPrimaryContract, builds, lastResult>>
  /\ UNCHANGED <<fsVars, OtherVars>>

\* ------------------------------------------- one generation, step by step
\* the last call of getCachedOrReadAsts: the artifact contents it was given,
\* whether it was served from the cache, the ASTs it returned
NoCall == [raw |-> 0, hit |-> FALSE, asts |-> <<>>]

Options(t) ==
  [filePath |-> DocPath, includeAll |-> gens[t].includeAll, includeDeps |-> gens[t].includeDeps]

\* await findLatestBuildInfoFile(buildInfoDir); if (!latest) return stub(...)
GenFind(t) ==
  /\ gens[t].pc = "find"
  /\ LET latest == findLatestBuildInfoFile(dirExists, dir)
     IN IF latest = NoFile
          THEN Complete(t, stub("No build-info artifacts found. Click 'Run Build' to generate.",
                                <<>>, TRUE))
          ELSE /\ gens' = [gens EXCEPT ![t] = [@ EXCEPT !.pc = "read", !.latest = latest]]
               /\ UNCHANGED <<settings, genToken, lastPrimaryContract, html, handle, builds,
                              lastResult>>
  /\ UNCHANGED <<fsVars, OtherVars>>

\* JSON.parse(await readFile(latest)) and the check of output.sources
GenRead(t) ==
  /\ gens[t].pc = "read"
  /\ LET file == dir[gens[t].latest]
         after == IF file = Absent THEN "stubRead" ELSE AfterParse(Contents[file.content])
     IN CASE after = "stubRead" ->
               Complete(t, stub("Failed to read build-info file", <<>>, TRUE))
          [] after = "throw" ->
               Complete(t, CatchAll("Cannot read properties of null (reading 'output')"))
          [] after = "stubSources" ->
               Complete(t, stub("Build-info present but missing embedded AST (output.sources).",
                                <<>>, TRUE))
          [] after = "load" ->
               /\ gens' = [gens EXCEPT ![t] = [@ EXCEPT !.pc = "stat", !.raw = file.content]]
               /\ UNCHANGED <<settings, genToken, lastPrimaryContract, html, handle, builds,
                              lastResult>>
  /\ UNCHANGED <<fsVars, OtherVars>>

\* getCachedOrReadAsts from its stat on, then the rest of generateCallGraph and
\* of updateWebview (no await separates them from an event of the host)
GenStat(t) ==
  /\ gens[t].pc = "stat"
  /\ LET latest == gens[t].latest
         sections == Contents[gens[t].raw].sources
         mtime == dir[latest].mtime
         loaded == getCachedOrReadAsts(astCache, latest, sections, mtime)
     IN /\ astCache' = loaded.cache
        /\ parseCount' = IF loaded.read THEN parseCount + 1 ELSE parseCount
        /\ lastCall' = [raw |-> gens[t].raw, hit |-> ~ loaded.read, asts |-> loaded.asts]
        /\ Complete(t, Resolve(loaded, sections, Options(t)))
  /\ UNCHANGED <<dirExists, dir, clock, OtherVars>>

\* ---------------------------------------------------------- the build tool
\* the artifacts a finished build leaves: JSON objects with an output.sources map
BuildOutputs == {c \in ContentIds : AfterParse(Contents[c]) = "load"}

\* forge build --build-info (re)writes an artifact
WriteArtifact(f, c) ==
  /\ clock < MaxClock
  /\ clock' = clock + 1
  /\ dirExists' = TRUE
  /\ dir' = [dir EXCEPT ![f] = [mtime |-> clock + 1, content |-> c]]
  /\ UNCHANGED <<astCache, parseCount, lastCall, shellVars, OtherVars>>

\* forge clean, or the user, removes an artifact
DeleteArtifact(f) ==
  /\ dir[f] # Absent
  /\ dir' = [dir EXCEPT ![f] = Absent]
  /\ UNCHANGED <<dirExists, clock, astCache, parseCount, lastCall, shellVars, OtherVars>>

\* ------------------------------------------------------- initial states
IdleResolver ==
  /\ rsSep = "fwd" /\ rsAsts = <<>> /\ rsTarget = DocPath /\ rsPc = "off" /\ rsOut = 0
  /\ rsResult = NoResult

IdlePass ==
  psContracts = <<>> /\ psIncludeAll = FALSE /\ psPc = "off" /\ psOut = NoResult

IdleTree ==
  /\ trCalls = [f \in {} |-> <<>>] /\ trRoot = "" /\ trWork = <<>> /\ trNodes = {}
  /\ trPc = "off"

\* no exportImage message has been received
NoExport ==
  [pc |-> "off", fileBase |-> [pieces |-> <<>>, suffix |-> 0, ext |-> ""],
   targetName |-> [pieces |-> <<>>, suffix |-> 0, ext |-> ""], attempt |-> 0]
NoExportLog ==
  [tried |-> <<>>,
   wrote |-> [issued |-> FALSE, name |-> [pieces |-> <<>>, suffix |-> 0, ext |-> ""],
              existedAtCheck |-> FALSE, landed |-> FALSE],
   post |-> "none", notice |-> "none"]

IdleExport ==
  /\ exDisk = {} /\ exDisk0 = {}
  /\ exIn = [dataUrlOk |-> FALSE, name |-> [pieces |-> <<>>, suffix |-> 0, ext |-> ""]]
  /\ ex = NoExport /\ exLog = NoExportLog

\* generateCallGraph has not been called
NoRun == [pc |-> "idle", includeAll |-> FALSE, latest |-> NoFile, raw |-> 0]
NoRunRecord ==
  [set |-> FALSE, file |-> NoFile, mtime |-> 0, content |-> 0, includeAll |-> FALSE,
   hit |-> FALSE, html |-> NoHtml]

IdleRuns == rnRun = NoRun /\ rnCount = 0 /\ rnRef = NoRunRecord /\ rnLast = NoRunRecord

\* scheduleUpdate has not been called
NoTimeLog ==
  [called |-> FALSE, lastCallAt |-> 0, burst |-> 0, starts |-> 0, startsSinceCall |-> 0]

IdleTimer == tmNow = 0 /\ tmDueAt = 0 /\ tmLog = NoTimeLog

\* no exportImage handler runs
IdleConcurrent == cxDisk = {} /\ cx = <<>> /\ cxLog = <<>>

\* the Contracts view has no contract
NoConfig == [enabled |-> FALSE, functionConfigs |-> <<>>, enabledFunctions |-> <<>>]
NoEntry == [present |-> FALSE, functions |-> <<>>]
NoSave == [pc |-> "idle", content |-> NoEntry]

IdleContracts ==
  /\ viewContracts = NoConfig /\ reconJson = NoEntry
  /\ isStateSaving = FALSE /\ saveStateTimeout = FALSE
  /\ saving = NoSave /\ watchEvents = 0 /\ loading = NoSave
  /\ lastSet = {} /\ msgCount = 0

IdleMore == IdleConcurrent /\ disposed = FALSE /\ IdleContracts

IdleAux == IdleExport /\ IdleRuns /\ IdleTimer /\ IdleMore

IdleOthers == IdleResolver /\ IdlePass /\ IdleTree /\ IdleAux

InitFs ==
  /\ clock = 1
  /\ dirExists \in BOOLEAN
  /\ \E c \in {0} \cup ContentIds :
       dir = [f \in Files |-> IF f = "a.json" /\ c # 0 /\ dirExists
                                THEN [mtime |-> 1, content |-> c] ELSE Absent]
  /\ astCache = NoCache
  /\ parseCount = 0
  /\ lastCall = NoCall

\* resolveCustomTextEditor has run: settings are off, updateWebview() was called
InitShell ==
  /\ settings = [includeAll |-> FALSE, includeDeps |-> FALSE]
  /\ genToken = 1
  /\ lastPrimaryContract = Undefined
  /\ html = getLoadingHtml
  /\ handle = FALSE
  /\ builds = 0
  /\ gens = [t \in Tokens |-> IF t = 1 THEN StartedGen(settings) ELSE IdleGen]
  /\ lastResult = NoResult

Init == InitShell /\ InitFs /\ IdleOthers

\* the shell and the pipeline over a build-info directory that is not rebuilt
Next ==
  \/ DocChange
  \/ \E key \in {"includeAll", "includeDeps"}, value \in BOOLEAN : UpdateSetting(key, value)
  \/ RunBuild
  \/ BuildDone
  \/ TimerFire
  \/ \E t \in Tokens : GenFind(t)
  \/ \E t \in Tokens : GenRead(t)
  \/ \E t \in Tokens : GenStat(t)
  \/ \E f \in Files : DeleteArtifact(f)

Spec == Init /\ [][Next]_vars

\* regenerations on document changes while the build rewrites the artifacts
NextLoader ==
  \/ DocChange
  \/ TimerFire
  \/ \E t \in Tokens : GenFind(t)
  \/ \E t \in Tokens : GenRead(t)
  \/ \E t \in Tokens : GenStat(t)
  \/ \E f \in Files, c \in BuildOutputs : WriteArtifact(f, c)

SpecLoader == Init /\ [][NextLoader]_vars

\* -------------------------------------------------- the resolver on its own
IdleFs ==
  /\ clock = 1 /\ dirExists = FALSE /\ dir = [f \in Files |-> Absent]
  /\ astCache = NoCache /\ parseCount = 0 /\ lastCall = NoCall

\* sequences of pairwise different elements of S, of length at most n
RECURSIVE DistinctSeqs(_, _)
DistinctSeqs(S, n) ==
  IF n = 0 THEN {<<>>}
  ELSE LET shorter == DistinctSeqs(S, n - 1)
       IN shorter \cup {Append(q, x) : q \in {r \in shorter : Len(r) = n - 1}, x \in S}

NoRepeat(q) == \A i, j \in 1..Len(q) : i # j => q[i] # q[j]

\* absolutePath values a compiler run can emit for the units of the artifact
UnitPaths ==
  { Path(<<"", "ws", "src", "A.sol">>, "fwd"),
    Path(<<"", "ws", "src", "A.sol">>, "back"),
    Path(<<"src", "A.sol">>, "fwd"),
    Path(<<"lib", "dep", "A.sol">>, "fwd"),
    Path(<<"src", "B.sol">>, "fwd"),
    Path(<<"A.sol">>, "fwd") }

\* document.uri.fsPath: inside or outside the workspace folder, platform separators
TargetSegs == { <<"", "ws", "src", "A.sol">>, <<"", "tmp", "A.sol">> }

InitResolve ==
  /\ rsSep \in {"fwd", "back"}
  /\ rsTarget \in {Path(segs, rsSep) : segs \in TargetSegs}
  /\ rsAsts \in {[i \in 1..Len(q) |-> Unit(q[i], <<>>)] :
                   q \in {r \in DistinctSeqs(UnitPaths, MaxUnits) : NoRepeat(r)}}
  /\ rsPc = "ready"
  /\ rsOut = 0
  /\ rsResult = NoResult
  /\ InitShell /\ IdleFs /\ IdlePass /\ IdleTree /\ IdleAux

\* const targetUnit = asts.find(u => pathMatches(...))
ResolveTarget ==
  /\ rsPc = "ready"
  /\ rsOut' = FindTargetUnit(rsAsts, rsTarget, rsSep)
  /\ rsResult' = ResolveOn([asts |-> rsAsts, debugSourceKeys |-> <<>>], <<>>,
                           [filePath |-> rsTarget, includeAll |-> FALSE, includeDeps |-> FALSE],
                           rsSep)
  /\ rsPc' = "done"
  /\ UNCHANGED <<rsSep, rsAsts, rsTarget, shellVars, fsVars, psVars, trVars, auxVars>>

SpecResolve == InitResolve /\ [][ResolveTarget]_vars

\* ------------------------------------------------ the contract pass on its own
ContractPool == {Vault, Token, Broken, Unrenderable, IVault, Base, Views, Math}

InitPass ==
  /\ psContracts \in {r \in DistinctSeqs(ContractPool, MaxContracts) : NoRepeat(r)}
  /\ psIncludeAll \in BOOLEAN
  /\ psPc = "ready"
  /\ psOut = NoResult
  /\ InitShell /\ IdleFs /\ IdleResolver /\ IdleTree /\ IdleAux

\* the loop over targetUnit.getChildrenByType(ContractDefinition) and its return
PassContracts ==
  /\ psPc = "ready"
  /\ psOut' = RunPass(psContracts, psIncludeAll, FALSE)
  /\ psPc' = "done"
  /\ UNCHANGED <<psContracts, psIncludeAll, shellVars, fsVars, rsVars, trVars, auxVars>>

SpecPass == InitPass /\ [][PassContracts]_vars

\* --------------------------------------------------- the call tree builder
Funcs == {"A", "B", "C"}

\* the callee lists a function body can have
CalleeLists == {q \in DistinctSeqs(Funcs, 2) : NoRepeat(q)}

NeverOnPath(f, path) == FALSE

\* the callee is one of the functions currently being expanded
OnPath(f, path) == \E i \in 1..Len(path) : path[i] = f

InitTree ==
  /\ trCalls \in [Funcs -> CalleeLists]
  /\ trRoot \in Funcs
  /\ trWork = <<[fn |-> trRoot, path |-> <<>>]>>
  /\ trNodes = {}
  /\ trPc = "expanding"
  /\ InitShell /\ IdleFs /\ IdleResolver /\ IdlePass /\ IdleAux

\* expand the next pending call: a callee already on the active call path
\* becomes a terminal back-reference, any other a node whose callees are pending
ExpandCall ==
  /\ trPc = "expanding"
  /\ trWork # <<>>
  /\ LET item == Head(trWork)
         here == Append(item.path, item.fn)
         callees == trCalls[item.fn]
     IN /\ Len(item.path) < MaxDepth
        /\ IF OnPath(item.fn, item.path)
             THEN /\ trNodes' = trNodes \cup {[path |-> here, backref |-> TRUE]}
                  /\ trWork' = Tail(trWork)
             ELSE /\ trNodes' = trNodes \cup {[path |-> here, backref |-> FALSE]}
                  /\ trWork' = [i \in 1..Len(callees) |-> [fn |-> callees[i], path |-> here]]
                                 \o Tail(trWork)
  /\ UNCHANGED <<trCalls, trRoot, trPc, shellVars, fsVars, rsVars, psVars, auxVars>>

\* nothing is pending: the tree is returned
FinishTree ==
  /\ trPc = "expanding"
  /\ trWork = <<>>
  /\ trPc' = "done"
  /\ UNCHANGED <<trCalls, trRoot, trWork, trNodes, shellVars, fsVars, rsVars, psVars, auxVars>>

NextTree == ExpandCall \/ FinishTree

SpecTree == InitTree /\ [][NextTree]_vars

\* ------------------------------------------------------ exportImage handler
MaxAttempts == 50

\* a file name: its pieces (a piece is a run of characters of [a-z0-9_.-] or one
\* other character), the numeric suffix "-n" (0: none) and the extension
FileName(pieces, suffix, ext) == [pieces |-> pieces, suffix |-> suffix, ext |-> ext]

\* msg.name undefined (or '')
NoName == FileName(<<>>, 0, "")

UnsafeChars == {" ", "/", ":"}

\* .replace(/[^a-z0-9_.-]/gi, '_')
Sanitize(name) ==
  [name EXCEPT !.pieces = [i \in 1..Len(name.pieces) |->
                             IF name.pieces[i] \in UnsafeChars THEN "_" ELSE name.pieces[i]]]

\* lastPrimaryContract ? `${lastPrimaryContract}-callgraph.png` : 'callgraph.png'
inferredName(primary) ==
  IF Falsy(primary) THEN FileName(<<"callgraph">>, 0, ".png")
                    ELSE FileName(<<primary, "-callgraph">>, 0, ".png")

\* (suggested || inferredName).replace(...)
fileBaseOf(suggested, primary) ==
  Sanitize(IF suggested = NoName THEN inferredName(primary) ELSE suggested)

\* fileBase.replace(/\.png$/i, '')
stem(fileBase) ==
  IF fileBase.ext \in {".png", ".PNG"} THEN fileBase.pieces
  ELSE IF fileBase.ext = "" THEN fileBase.pieces
  ELSE Append(fileBase.pieces, fileBase.ext)

SkipFirstSuffix(fileBase, attempt) == FileName(stem(fileBase), attempt + 1, ".png")

\* targetName = `${stem}-${attempt}.png`
SuffixedName(fileBase, attempt) == FileName(stem(fileBase), attempt, ".png")

NeverExists(disk, candidate) == FALSE

\* fs.existsSync(candidate)
Exists(disk, candidate) == candidate \in disk

NoMsg == [dataUrlOk |-> FALSE, name |-> NoName]

\* message exportImage {dataUrl, name}: up to the start of the loop
ExportImage(msg) ==
  /\ ex.pc = "ready"
  /\ exIn' = msg
  /\ IF ~ msg.dataUrlOk
       THEN ex' = [ex EXCEPT !.pc = "done"]
       ELSE LET fileBase == fileBaseOf(msg.name, lastPrimaryContract)
            IN ex' = [pc |-> "loop", fileBase |-> fileBase, targetName |-> fileBase,
                      attempt |-> 0]
  /\ UNCHANGED <<exDisk, exDisk0, exLog, shellVars, fsVars, rsVars, psVars, trVars, rnVars, tmVars, moreVars>>

\* one iteration of while (attempt < 50): the candidate is free and the write
\* is started, or the next name is formed
ExTry ==
  /\ ex.pc = "loop"
  /\ ex.attempt < MaxAttempts
  /\ LET candidate == ex.targetName
     IN IF ~ Exists(exDisk, candidate)
          THEN /\ ex' = [ex EXCEPT !.pc = "writing"]
               /\ exLog' = [exLog EXCEPT !.tried = Append(@, candidate),
                                         !.wrote = [issued |-> TRUE, name |-> candidate,
                                                    existedAtCheck |-> candidate \in exDisk,
                                                    landed |-> FALSE]]
          ELSE /\ ex' = [ex EXCEPT !.attempt = @ + 1,
                                   !.targetName = SuffixedName(ex.fileBase, ex.attempt + 1)]
               /\ exLog' = [exLog EXCEPT !.tried = Append(@, candidate)]
  /\ UNCHANGED <<exDisk, exDisk0, exIn, shellVars, fsVars, rsVars, psVars, trVars, rnVars, tmVars, moreVars>>

\* the loop ends without a free name: warning and exportImageResult ok:false
ExGiveUp ==
  /\ ex.pc = "loop"
  /\ ~ (ex.attempt < MaxAttempts)
  /\ ex' = [ex EXCEPT !.pc = "done"]
  /\ exLog' = [exLog EXCEPT !.notice = "warning", !.post = "exists"]
  /\ UNCHANGED <<exDisk, exDisk0, exIn, shellVars, fsVars, rsVars, psVars, trVars, rnVars, tmVars, moreVars>>

\* await vscode.workspace.fs.writeFile(uri, buffer) fulfils
ExWritten ==
  /\ ex.pc = "writing"
  /\ exDisk' = exDisk \cup {ex.targetName}
  /\ ex' = [ex EXCEPT !.pc = "done"]
  /\ exLog' = [exLog EXCEPT !.wrote = [@ EXCEPT !.landed = TRUE],
                            !.notice = "info", !.post = "ok"]
  /\ UNCHANGED <<exDisk0, exIn, shellVars, fsVars, rsVars, psVars, trVars, rnVars, tmVars, moreVars>>

\* the write rejects: the catch shows an error and posts ok:false
ExWriteFails ==
  /\ ex.pc = "writing"
  /\ ex' = [ex EXCEPT !.pc = "done"]
  /\ exLog' = [exLog EXCEPT !.notice = "error", !.post = "error"]
  /\ UNCHANGED <<exDisk, exDisk0, exIn, shellVars, fsVars, rsVars, psVars, trVars, rnVars, tmVars, moreVars>>

\* another program creates the chosen name while the write is pending
ExOtherCreates ==
  /\ ex.pc = "writing"
  /\ ex.targetName \notin exDisk
  /\ exDisk' = exDisk \cup {ex.targetName}
  /\ UNCHANGED <<exDisk0, exIn, ex, exLog, shellVars, fsVars, rsVars, psVars, trVars, rnVars, tmVars, moreVars>>

\* the names a message can suggest
SuggestedNames ==
  { NoName, FileName(<<"graph">>, 0, ".png"), FileName(<<"My", " ", "Vault">>, 0, ".png") }

\* the files of the base directory: the first n names of one export sequence,
\* or such a run with its first or second name missing
DiskShapes(fileBase) ==
  LET name(k) == IF k = 0 THEN fileBase ELSE SuffixedName(fileBase, k)
  IN {{name(k) : k \in 0..(n - 1)} : n \in 0..MaxAttempts}
       \cup {{name(k) : k \in 1..n} : n \in {1, 3, MaxAttempts}}
       \cup {{name(k) : k \in (0..n) \ {1}} : n \in {2, MaxAttempts - 1}}

InitExport ==
  /\ settings = [includeAll |-> FALSE, includeDeps |-> FALSE]
  /\ genToken = 1
  /\ lastPrimaryContract \in {Undefined, "Vault"}
  /\ html = getLoadingHtml
  /\ handle = FALSE
  /\ builds = 0
  /\ gens = [t \in Tokens |-> IF t = 1 THEN StartedGen(settings) ELSE IdleGen]
  /\ lastResult = NoResult
  /\ \E suggested \in SuggestedNames :
       exDisk \in DiskShapes(fileBaseOf(suggested, lastPrimaryContract))
  /\ exDisk0 = exDisk
  /\ exIn = NoMsg
  /\ ex = [NoExport EXCEPT !.pc = "ready"]
  /\ exLog = NoExportLog
  /\ IdleFs /\ IdleResolver /\ IdlePass /\ IdleTree /\ IdleRuns /\ IdleTimer /\ IdleMore

NextExport ==
  \/ \E ok \in BOOLEAN, name \in SuggestedNames : ExportImage([dataUrlOk |-> ok, name |-> name])
  \/ ExTry
  \/ ExGiveUp
  \/ ExWritten
  \/ ExWriteFails
  \/ ExOtherCreates

SpecExport == InitExport /\ [][NextExport]_vars

\* ------------------------------------- pipeline calls one after the other
MaxRuns == 4         \* calls of generateCallGraph in one behaviour

rnRest == <<shellVars, rsVars, psVars, trVars, exVars, tmVars, moreVars>>

RunOptions == [filePath |-> DocPath, includeAll |-> rnRun.includeAll, includeDeps |-> FALSE]

\* the run returns result; the artifact it ran on is kept when what it read is
\* what the file still holds
RunReturns(result, hit) ==
  LET f == rnRun.latest
      clean == f # NoFile /\ dir[f] # Absent /\ rnRun.raw = dir[f].content
      record == [set |-> clean, file |-> f,
                 mtime |-> IF clean THEN dir[f].mtime ELSE 0,
                 content |-> IF clean THEN rnRun.raw ELSE 0,
                 includeAll |-> rnRun.includeAll, hit |-> hit, html |-> result.html]
  IN /\ rnRun' = NoRun
     /\ rnLast' = record
     /\ rnRef' \in IF clean THEN {rnRef, record} ELSE {rnRef}

\* generateCallGraph(options) is called
RunStart(includeAll) ==
  /\ rnRun.pc = "idle"
  /\ rnCount < MaxRuns
  /\ rnCount' = rnCount + 1
  /\ rnRun' = [NoRun EXCEPT !.pc = "find", !.includeAll = includeAll]
  /\ UNCHANGED <<rnRef, rnLast, fsVars, rnRest>>

\* await findLatestBuildInfoFile(buildInfoDir); if (!latest) return stub(...)
RunFind ==
  /\ rnRun.pc = "find"
  /\ LET latest == findLatestBuildInfoFile(dirExists, dir)
     IN IF latest = NoFile
          THEN RunReturns(stub("No build-info artifacts found. Click 'Run Build' to generate.",
                               <<>>, TRUE), FALSE)
          ELSE /\ rnRun' = [rnRun EXCEPT !.pc = "read", !.latest = latest]
               /\ UNCHANGED <<rnRef, rnLast>>
  /\ UNCHANGED <<rnCount, fsVars, rnRest>>

\* JSON.parse(await readFile(latest)) and the check of output.sources
RunRead ==
  /\ rnRun.pc = "read"
  /\ LET file == dir[rnRun.latest]
         after == IF file = Absent THEN "stubRead" ELSE AfterParse(Contents[file.content])
     IN CASE after = "stubRead" ->
               RunReturns(stub("Failed to read build-info file", <<>>, TRUE), FALSE)
          [] after = "throw" ->
               RunReturns(CatchAll("Cannot read properties of null (reading 'output')"), FALSE)
          [] after = "stubSources" ->
               RunReturns(stub("Build-info present but missing embedded AST (output.sources).",
                               <<>>, TRUE), FALSE)
          [] after = "load" ->
               /\ rnRun' = [rnRun EXCEPT !.pc = "stat", !.raw = file.content]
               /\ UNCHANGED <<rnRef, rnLast>>
  /\ UNCHANGED <<rnCount, fsVars, rnRest>>

\* getCachedOrReadAsts from its stat on and the rest of generateCallGraph
RunStat ==
  /\ rnRun.pc = "stat"
  /\ LET latest == rnRun.latest
         sections == Contents[rnRun.raw].sources
         mtime == dir[latest].mtime
         loaded == getCachedOrReadAsts(astCache, latest, sections, mtime)
     IN /\ astCache' = loaded.cache
        /\ parseCount' = IF loaded.read THEN parseCount + 1 ELSE parseCount
        /\ lastCall' = [raw |-> rnRun.raw, hit |-> ~ loaded.read, asts |-> loaded.asts]
        /\ RunReturns(Resolve(loaded, sections, RunOptions), ~ loaded.read)
  /\ UNCHANGED <<rnCount, dirExists, dir, clock, rnRest>>

InitRerun ==
  /\ InitShell /\ InitFs
  /\ IdleResolver /\ IdlePass /\ IdleTree /\ IdleExport /\ IdleRuns /\ IdleTimer /\ IdleMore

NextRerun ==
  \/ \E includeAll \in BOOLEAN : RunStart(includeAll)
  \/ RunFind
  \/ RunRead
  \/ RunStat
  \/ \E f \in Files, c \in BuildOutputs : WriteArtifact(f, c)
  \/ \E f \in Files : DeleteArtifact(f)

SpecRerun == InitRerun /\ [][NextRerun]_vars

\* ------------------------------------------- the debounce on a time line
MaxTime == 1200      \* milliseconds of one behaviour
MaxBurst == 3        \* calls counted in one burst
Wait == 300

\* the times by which the clock moves between two events
Gaps == {50, 250}

tmRest == <<fsVars, rsVars, psVars, trVars, exVars, rnVars, moreVars>>

DueAtOnce(now) == now

\* setTimeout(() => fn(...args), wait): the time from which the callback can run
DueTime(now) == now + Wait

\* the function debounce returns: if (handle) clearTimeout(handle); handle = setTimeout(...)
Debounced ==
  /\ tmNow + Wait <= MaxTime
  /\ scheduleUpdate
  /\ tmDueAt' = DueTime(tmNow)
  /\ tmLog' = [tmLog EXCEPT !.called = TRUE, !.lastCallAt = tmNow, !.startsSinceCall = 0,
                            !.burst = IF tmLog.called /\ tmNow - tmLog.lastCallAt < Wait
                                        THEN (IF @ < MaxBurst THEN @ + 1 ELSE @)
                                        ELSE 1]
  /\ UNCHANGED tmNow

\* onDidChangeTextDocument of the previewed document, at time tmNow
TimedDocChange ==
  /\ Debounced
  /\ UNCHANGED <<settings, genToken, lastPrimaryContract, html, builds, lastResult, tmRest>>

\* message updateSetting {key, value}, at time tmNow
TimedUpdateSetting(key, value) ==
  /\ key \in DOMAIN settings
  /\ settings' = [settings EXCEPT ![key] = value]
  /\ Debounced
  /\ UNCHANGED <<genToken, lastPrimaryContract, html, builds, lastResult, tmRest>>

\* the build command fulfils, at time tmNow
TimedBuildDone ==
  /\ builds > 0
  /\ builds' = builds - 1
  /\ Debounced
  /\ UNCHANGED <<settings, genToken, lastPrimaryContract, html, lastResult, tmRest>>

\* the timer callback runs, no earlier than it is due: fn() starts a pipeline run
TimedFire ==
  /\ handle
  /\ tmNow >= tmDueAt
  /\ handle' = FALSE
  /\ tmLog' = [tmLog EXCEPT !.starts = @ + 1, !.startsSinceCall = @ + 1]
  /\ UNCHANGED <<settings, genToken, lastPrimaryContract, html, builds, gens, lastResult,
                 tmNow, tmDueAt, tmRest>>

\* time passes
Tick(d) ==
  /\ tmNow + d <= MaxTime
  /\ tmNow' = tmNow + d
  /\ UNCHANGED <<shellVars, tmDueAt, tmLog, tmRest>>

InitDebounce ==
  /\ InitShell /\ IdleFs
  /\ IdleResolver /\ IdlePass /\ IdleTree /\ IdleExport /\ IdleRuns /\ IdleTimer /\ IdleMore

NextDebounce ==
  \/ TimedDocChange
  \/ \E key \in {"includeAll"}, value \in BOOLEAN : TimedUpdateSetting(key, value)
  \/ RunBuild
  \/ TimedBuildDone
  \/ TimedFire
  \/ \E d \in Gaps : Tick(d)

SpecDebounce == InitDebounce /\ [][NextDebounce]_vars

\* ------------------------------------------ the outcomes of the rebuild command
\* executeCommand('recon.buildWithInfo') rejects (the command throws or is not
\* registered): .then() was given a fulfilment handler only, so nothing runs
BuildFails ==
  /\ builds > 0
  /\ builds' = builds - 1
  /\ UNCHANGED <<settings, genToken, lastPrimaryContract, html, handle, gens, lastResult>>
  /\ UNCHANGED <<fsVars, OtherVars>>

\* rebuilds requested from the surface, with either outcome of the command
NextBuild ==
  \/ RunBuild
  \/ BuildDone
  \/ BuildFails
  \/ TimerFire
  \/ \E t \in Tokens : GenFind(t)
  \/ \E t \in Tokens : GenRead(t)
  \/ \E t \in Tokens : GenStat(t)
  \/ \E f \in Files, c \in BuildOutputs : WriteArtifact(f, c)

SpecBuild == Init /\ [][NextBuild]_vars

\* ------------------------------------- exportImage handlers at the same time
MaxExports == 2      \* exportImage messages in one behaviour

cxRest == <<shellVars, fsVars, rsVars, psVars, trVars, exVars, rnVars, tmVars, disposed, rcVars>>

RECURSIVE Probe(_, _, _, _)
\* while (attempt < 50) { if (!fs.existsSync(candidate)) { await writeFile ... }
\* attempt++; targetName = ... }: the loop has no await before the write, so it
\* runs to the first free name, or to its end, in one piece
Probe(disk, fileBase, targetName, attempt) ==
  IF ~ (attempt < MaxAttempts)
    THEN [found |-> FALSE, targetName |-> targetName, attempt |-> attempt]
  ELSE IF ~ Exists(disk, targetName)
    THEN [found |-> TRUE, targetName |-> targetName, attempt |-> attempt]
  ELSE Probe(disk, fileBase, SuffixedName(fileBase, attempt + 1), attempt + 1)

\* message exportImage {dataUrl, name}, handled up to await writeFile(...) or,
\* when nothing is written, to its end
CxExportImage(msg) ==
  /\ Len(cx) < MaxExports
  /\ IF ~ msg.dataUrlOk
       THEN cx' = Append(cx, [pc |-> "done", targetName |-> NoName, post |-> "none"])
       ELSE LET fileBase == fileBaseOf(msg.name, lastPrimaryContract)
                probe == Probe(cxDisk, fileBase, fileBase, 0)
            IN cx' = Append(cx, IF probe.found
                                  THEN [pc |-> "writing", targetName |-> probe.targetName,
                                        post |-> "none"]
                                  ELSE [pc |-> "done", targetName |-> probe.targetName,
                                        post |-> "exists"])
  /\ UNCHANGED <<cxDisk, cxLog, cxRest>>

\* the writeFile of handler h fulfils: the file is created or replaced
CxWritten(h) ==
  /\ h <= Len(cx)
  /\ cx[h].pc = "writing"
  /\ cxDisk' = cxDisk \cup {cx[h].targetName}
  /\ cxLog' = Append(cxLog, [handler |-> h, name |-> cx[h].targetName,
                              replaced |-> cx[h].targetName \in cxDisk])
  /\ cx' = [cx EXCEPT ![h] = [@ EXCEPT !.pc = "done", !.post = "ok"]]
  /\ UNCHANGED cxRest

\* the writeFile of handler h rejects: the catch posts ok:false
CxWriteFails(h) ==
  /\ h <= Len(cx)
  /\ cx[h].pc = "writing"
  /\ cx' = [cx EXCEPT ![h] = [@ EXCEPT !.pc = "done", !.post = "error"]]
  /\ UNCHANGED <<cxDisk, cxLog, cxRest>>

InitConcurrent ==
  /\ InitShell
  /\ \E suggested \in SuggestedNames :
       cxDisk \in DiskShapes(fileBaseOf(suggested, lastPrimaryContract))
  /\ cx = <<>>
  /\ cxLog = <<>>
  /\ disposed = FALSE
  /\ IdleFs /\ IdleResolver /\ IdlePass /\ IdleTree /\ IdleExport /\ IdleRuns /\ IdleTimer
  /\ IdleContracts

NextConcurrent ==
  \/ \E ok \in BOOLEAN, name \in SuggestedNames :
       CxExportImage([dataUrlOk |-> ok, name |-> name])
  \/ \E h \in 1..MaxExports : CxWritten(h)
  \/ \E h \in 1..MaxExports : CxWriteFails(h)

SpecConcurrent == InitConcurrent /\ [][NextConcurrent]_vars

\* ------------------------------------------------- the panel is disposed
\* webviewPanel.onDidDispose(() => changeSub.dispose()): the subscription to
\* document changes ends; the debounce timer and the generations in flight are
\* left as they are
Dispose ==
  /\ ~ disposed
  /\ disposed' = TRUE
  /\ UNCHANGED <<shellVars, fsVars, rsVars, psVars, trVars, exVars, rnVars, tmVars, cxVars,
                 rcVars>>

\* onDidChangeTextDocument while changeSub is subscribed
LiveDocChange == ~ disposed /\ DocChange

\* a message of the webview, which exists as long as the panel does
LiveUpdateSetting(key, value) == ~ disposed /\ UpdateSetting(key, value)

\* the editor until and after its panel is closed
NextDispose ==
  \/ LiveDocChange
  \/ \E key \in {"includeAll", "includeDeps"}, value \in BOOLEAN : LiveUpdateSetting(key, value)
  \/ Dispose
  \/ TimerFire
  \/ \E t \in Tokens : GenFind(t)
  \/ \E t \in Tokens : GenRead(t)
  \/ \E t \in Tokens : GenStat(t)

SpecDispose == Init /\ [][NextDispose]_vars

\* ------------------------------------------------------ the Contracts view
MaxMsgs == 3         \* toggleFunction messages in one behaviour
MaxEvents == 2       \* watcher events waiting for their handler

rcRest == <<shellVars, fsVars, rsVars, psVars, trVars, exVars, rnVars, tmVars, cxVars, disposed>>

\* the function signatures of the contract shown in the view
Signatures == {"deposit()", "mint()"}

\* { signature, actor: Actor.ACTOR, mode: Mode.NORMAL }
FunctionConfig(signature) == [signature |-> signature, actor |-> "ACTOR", mode |-> "NORMAL"]

\* functionConfigs.map(f => f.signature)
SignaturesOf(functionConfigs) ==
  [i \in 1..Len(functionConfigs) |-> functionConfigs[i].signature]

\* the entry of the contract in the object saveState passes to saveReconJson;
\* separated keeps its default, true
StateToSave(contract) ==
  IF contract.enabled /\ Len(contract.functionConfigs) > 0
    THEN [present |-> TRUE, functions |-> contract.functionConfigs]
    ELSE NoEntry

\* the contract loadState builds from the entry read from recon.json
Loaded(savedConfig) ==
  LET functionConfigs == IF savedConfig.present THEN savedConfig.functions ELSE <<>>
  IN [enabled |-> savedConfig.present /\ Len(savedConfig.functions) > 0,
      functionConfigs |-> functionConfigs,
      enabledFunctions |-> SignaturesOf(functionConfigs)]

\* case 'toggleFunction': the contract after the message
ToggleFunction(contract, functionName, enabled) ==
  IF enabled
    THEN IF \E i \in 1..Len(contract.enabledFunctions) :
                contract.enabledFunctions[i] = functionName
           THEN contract
           ELSE [contract EXCEPT
                   !.enabledFunctions = Append(@, functionName),
                   !.functionConfigs =
                     IF \E i \in 1..Len(@) : @[i].signature = functionName
                       THEN @ ELSE Append(@, FunctionConfig(functionName))]
    ELSE [contract EXCEPT
            !.enabledFunctions = SelectSeq(@, LAMBDA fn : fn # functionName),
            !.functionConfigs = SelectSeq(@, LAMBDA f : f.signature # functionName)]

\* saveState() -> saveReconJson(data) up to await fs.readFile: a call made
\* while a save is in progress returns at once
saveState(contract) ==
  IF isStateSaving
    THEN UNCHANGED <<isStateSaving, saving>>
    ELSE /\ isStateSaving' = TRUE
         /\ saving' = [pc |-> "read", content |-> StateToSave(contract)]

\* message toggleFunction of the webview, which lists the functions of an
\* enabled contract: the change in memory, saveState() not awaited, then
\* debouncedSaveState()
ToggleMessage(functionName, enabled) ==
  /\ msgCount < MaxMsgs
  /\ viewContracts.enabled
  /\ msgCount' = msgCount + 1
  /\ viewContracts' = ToggleFunction(viewContracts, functionName, enabled)
  /\ lastSet' = IF enabled THEN lastSet \cup {functionName} ELSE lastSet \ {functionName}
  /\ saveState(viewContracts')
  /\ saveStateTimeout' = TRUE
  /\ UNCHANGED <<reconJson, watchEvents, loading, rcRest>>

\* saveReconJson after fs.readFile: the comparison with the existing content
SaveRead ==
  /\ saving.pc = "read"
  /\ IF reconJson # saving.content
       THEN /\ saving' = [saving EXCEPT !.pc = "write"]
            /\ UNCHANGED isStateSaving
       ELSE /\ saving' = NoSave
            /\ isStateSaving' = FALSE
  /\ UNCHANGED <<viewContracts, reconJson, saveStateTimeout, watchEvents, loading, lastSet,
                 msgCount, rcRest>>

\* fs.writeFile fulfils, then finally { isStateSaving = false }; the watcher
\* will report the change
SaveWrite ==
  /\ saving.pc = "write"
  /\ reconJson' = saving.content
  /\ watchEvents' = IF watchEvents < MaxEvents THEN watchEvents + 1 ELSE watchEvents
  /\ saving' = NoSave
  /\ isStateSaving' = FALSE
  /\ UNCHANGED <<viewContracts, saveStateTimeout, loading, lastSet, msgCount, rcRest>>

\* the 500 ms timer of debouncedSaveState fires: saveState()
SaveTimer ==
  /\ saveStateTimeout
  /\ saveStateTimeout' = FALSE
  /\ saveState(viewContracts)
  /\ UNCHANGED <<viewContracts, reconJson, watchEvents, loading, lastSet, msgCount, rcRest>>

\* fileSystemWatcher.onDidChange: loadState() is called
WatchChange ==
  /\ watchEvents > 0
  /\ loading.pc = "idle"
  /\ watchEvents' = watchEvents - 1
  /\ loading' = [pc |-> "read", content |-> NoEntry]
  /\ UNCHANGED <<viewContracts, reconJson, isStateSaving, saveStateTimeout, saving, lastSet,
                 msgCount, rcRest>>

\* loadReconJson: fs.readFile reads recon.json
LoadRead ==
  /\ loading.pc = "read"
  /\ loading' = [pc |-> "apply", content |-> reconJson]
  /\ UNCHANGED <<viewContracts, reconJson, isStateSaving, saveStateTimeout, saving, watchEvents,
                 lastSet, msgCount, rcRest>>

\* loadState after the await: this.contracts = this.contracts.map(...)
LoadApply ==
  /\ loading.pc = "apply"
  /\ viewContracts' = Loaded(loading.content)
  /\ loading' = NoSave
  /\ UNCHANGED <<reconJson, isStateSaving, saveStateTimeout, saving, watchEvents, lastSet,
                 msgCount, rcRest>>

\* setContracts has loaded the state that recon.json holds
InitContracts ==
  /\ \E q \in {r \in DistinctSeqs(Signatures, Cardinality(Signatures)) : NoRepeat(r) /\ Len(r) > 0} :
       /\ reconJson = [present |-> TRUE,
                       functions |-> [i \in 1..Len(q) |-> FunctionConfig(q[i])]]
       /\ lastSet = {q[i] : i \in 1..Len(q)}
  /\ viewContracts = Loaded(reconJson)
  /\ isStateSaving = FALSE /\ saveStateTimeout = FALSE
  /\ saving = NoSave /\ watchEvents = 0 /\ loading = NoSave
  /\ msgCount = 0
  /\ InitShell /\ IdleFs /\ IdleResolver /\ IdlePass /\ IdleTree
  /\ IdleExport /\ IdleRuns /\ IdleTimer /\ IdleConcurrent /\ disposed = FALSE

NextContracts ==
  \/ \E functionName \in Signatures, enabled \in BOOLEAN : ToggleMessage(functionName, enabled)
  \/ SaveRead
  \/ SaveWrite
  \/ SaveTimer
  \/ WatchChange
  \/ LoadRead
  \/ LoadApply

SpecContracts == InitContracts /\ [][NextContracts]_vars

\* ------------------------------------------------------------------ claims
InFlight(g) == g.pc \in {"find", "read", "stat"}

Completes(t) == InFlight(gens[t]) /\ gens'[t].pc = "done"

\* C1: when a generation completes, its result is written to the webview and
\* recorded as lastPrimaryContract only if its token is still the latest
\* issued; a superseded generation changes neither.
C1_AppliedOnlyIfLatest ==
  [][\A t \in Tokens : Completes(t) =>
       IF t = genToken
         THEN /\ gens'[t].applied
              /\ html'.kind = "page" /\ html'.gen = t /\ html'.body = lastResult'.html
              /\ lastPrimaryContract' \in {lastPrimaryContract, lastResult'.primaryContractName}
              /\ ~ Falsy(lastResult'.primaryContractName)
                   => lastPrimaryContract' = lastResult'.primaryContractName
         ELSE /\ ~ gens'[t].applied
              /\ html' = html
              /\ lastPrimaryContract' = lastPrimaryContract]_vars

\* G1 started before G2 and completed while G2's result was on the surface,
\* which still shows G2's result
C1_Witness ==
  \E t \in Tokens :
    /\ gens[t].pc = "done" /\ gens[t].late /\ ~ gens[t].applied
    /\ html.kind = "page" /\ html.gen > t /\ gens[html.gen].applied

\* C2: once a regeneration has been requested (scheduleUpdate), no generation
\* started before that request writes its result to the webview, also while
\* the request waits in the debounce window.
C2_NoStaleResultAfterRequest ==
  [][\A t \in Tokens : (Completes(t) /\ gens[t].stale) => html' = html]_vars

\* the ASTs the reader yields for artifact contents c
AstsOf(c) == ReaderRead(SolcSources(Contents[c].sources))

\* C3: the ASTs of a cache entry are those of the artifact contents that have
\* the entry's modification time.
C3_CacheHoldsContentsOfItsMtime ==
  (astCache # NoCache /\ dir[astCache.file].mtime = astCache.mtimeMs)
    => astCache.asts = AstsOf(dir[astCache.file].content)

\* C6: a loader call whose file and modification time equal the cached entry's
\* returns the cached ASTs without invoking the reader; any other call invokes
\* the reader once.
C6_CacheKeyedByFileAndMtime ==
  [][\A t \in Tokens : (gens[t].pc = "stat" /\ gens'[t].pc = "done") =>
       LET mtime == dir[gens[t].latest].mtime
           same == /\ astCache # NoCache /\ mtime # 0
                   /\ astCache.file = gens[t].latest /\ astCache.mtimeMs = mtime
       IN IF same
            THEN parseCount' = parseCount /\ lastCall'.hit /\ lastCall'.asts = astCache.asts
            ELSE parseCount' = parseCount + 1 /\ ~ lastCall'.hit]_vars

\* a second call found the entry of the first and did not read again
C6_Witness == lastCall.hit /\ parseCount = 1 /\ Len(lastCall.asts) > 0

\* C9: a loader call that reads returns the SourceUnit of every entry that
\* carries an AST the reader can read, whatever the other entries are.
C9_BadEntrySkippedAlone ==
  (lastCall.raw # 0 /\ ~ lastCall.hit) =>
    LET good == SelectSeq(Contents[lastCall.raw].sources,
                          LAMBDA e : e.hasAst /\ e.parseable)
    IN lastCall.asts = [i \in 1..Len(good) |-> good[i].unit]

\* C10: generateCallGraph always settles with a GenerationResult, and the
\* latest generation, once complete, has put rendered content on the surface.
C10_NoExceptionCrossesBoundary ==
  /\ ~ lastResult.rejected
  /\ \A t \in Tokens : gens[t].pc = "done" => lastResult.html.kind # "none"
  /\ gens[genToken].pc = "done" =>
       /\ gens[genToken].applied
       /\ html.kind \in {"page", "building"}
       /\ html.kind = "page" => html.gen = genToken /\ html.body.kind # "none"

\* the artifact parsed to null, the TypeError was caught, its panel is shown
C10_Witness ==
  /\ gens[genToken].pc = "done"
  /\ lastResult.html.kind = "argusError"
  /\ html.kind = "page" /\ html.body = lastResult.html

\* ---- claims about the resolver, the pass and the tree builder
rsAbs == targetPathAbs(rsTarget, rsSep)
rsRel == targetPathRel(rsTarget, rsSep)
rsUnitPath(i) == normalizePath(rsAsts[i].absolutePath, rsSep)

ExactMatch(i) == StrEq(rsUnitPath(i), rsAbs)

BasenameOnlyMatch(i) ==
  /\ ~ StrEq(rsUnitPath(i), rsAbs)
  /\ ~ StrEq(rsUnitPath(i), rsRel)
  /\ pathMatches(rsUnitPath(i), rsAbs, rsRel, rsSep)

\* C4: when the units hold an exact-path match and a basename-only match, in
\* any order, the resolver selects the exact-path unit.
C4_ExactMatchWins ==
  ( /\ rsPc = "done"
    /\ \E i \in 1..Len(rsAsts) : ExactMatch(i)
    /\ \E j \in 1..Len(rsAsts) : BasenameOnlyMatch(j) )
  => (rsOut # 0 /\ ExactMatch(rsOut))

psIter(i) == Iteration(psContracts[i], psIncludeAll, FALSE)

\* index of the first contract that is rendered, 0 if none is
FirstRendered ==
  LET r == {i \in 1..Len(psContracts) : psIter(i) = "render"}
  IN IF r = {} THEN 0 ELSE CHOOSE i \in r : \A j \in r : i <= j

\* contract i was reached by the loop and its expansion threw
ThrewAt(i) == psIter(i) = "throw" /\ (FirstRendered = 0 \/ i < FirstRendered)

InSeq(x, q) == \E k \in 1..Len(q) : q[k] = x

\* C7: the message of every contract whose expansion threw is in the errors
\* list of the returned result, also when no contract is rendered.
C7_ErrorsSurfaced ==
  psPc = "done" =>
    \A i \in 1..Len(psContracts) : ThrewAt(i) => InSeq(psContracts[i].errMsg, psOut.errors)

C5_CallTreeFinite ==
  /\ \A n \in trNodes :
       /\ Len(n.path) <= Cardinality(Funcs) + 1
       /\ n.backref <=> InSeq(Last(n.path), SubSeq(n.path, 1, Len(n.path) - 1))
       /\ n.backref => \A m \in trNodes :
                         ~ (Len(m.path) > Len(n.path) /\ SubSeq(m.path, 1, Len(n.path)) = n.path)
  /\ \A k \in 1..Len(trWork) : Len(trWork[k].path) <= Cardinality(Funcs)
  /\ \A k \in 1..Len(trWork) : NoRepeat(trWork[k].path)

\* A calls B calls A: the tree is complete and the second A is a back-reference
C5_Witness ==
  /\ trPc = "done"
  /\ [path |-> <<"A", "B", "A">>, backref |-> TRUE] \in trNodes

\* ---- claims about the exportImage handler
\* the k-th name of the export sequence: <stem>.png, <stem>-1.png, <stem>-2.png, ...
CandidateAt(k) == [pieces |-> ex.fileBase.pieces, suffix |-> k, ext |-> ".png"]

Exporting == ex.pc \in {"loop", "writing", "done"} /\ exIn.dataUrlOk

C12_NoOverwrite ==
  /\ exLog.wrote.issued => (~ exLog.wrote.existedAtCheck /\ exLog.wrote.name \notin exDisk0)
  /\ (ex.pc = "done" /\ exIn.dataUrlOk /\ \A k \in 0..(MaxAttempts - 1) : CandidateAt(k) \in exDisk0)
       => /\ ~ exLog.wrote.issued
          /\ exDisk = exDisk0
          /\ exLog.notice = "warning"
          /\ exLog.post = "exists"

\* all 50 names were tried and the export gave up
C12_Witness ==
  /\ ex.pc = "done" /\ exLog.post = "exists" /\ exLog.notice = "warning"
  /\ Len(exLog.tried) = MaxAttempts
  /\ exDisk = exDisk0 /\ Cardinality(exDisk0) = MaxAttempts

\* ---- claims about repeated pipeline runs
\* C13: two runs on the same artifact file (same contents and modification
\* time) with the same target file and toggles return identical HTML, whether
\* the later run is served from the AST cache or parses again.
C13_RerunIdentical ==
  ( /\ rnRef.set /\ rnLast.set
    /\ rnRef.file = rnLast.file /\ rnRef.mtime = rnLast.mtime
    /\ rnRef.content = rnLast.content /\ rnRef.includeAll = rnLast.includeAll )
  => rnRef.html = rnLast.html

\* ---- claims about the roots of the graph
\* the contract the returned graph shows
psShown == CHOOSE c \in {psContracts[i] : i \in 1..Len(psContracts)} :
             c.name = psOut.html.contract

ArtifactOf(t) == dir[gens[t].latest]

IsRebuildOffer(result) ==
  /\ ~ result.rejected
  /\ result.html.kind = "stub" /\ result.html.msg # "" /\ result.html.showBuild
  /\ result.contracts = <<>> /\ result.empty

\* C15: a generation that finds no build-info directory, no .json artifact, or
\* an artifact that is not valid JSON returns an empty result with a reason
\* message and the Run Build action.
C15_MissingArtifactIsRecoverable ==
  [][\A t \in Tokens :
       ( \/ /\ gens[t].pc = "find" /\ gens'[t].pc # "find"
            /\ (~ dirExists \/ \A f \in Files : dir[f] = Absent)
         \/ /\ gens[t].pc = "read" /\ gens'[t].pc # "read"
            /\ ArtifactOf(t) # Absent /\ Contents[ArtifactOf(t).content].json = "invalid" )
       => (Completes(t) /\ IsRebuildOffer(lastResult'))]_vars

\* the newest artifact was not valid JSON and the Run Build offer is shown
C15_Witness ==
  /\ dir["a.json"] # Absent /\ Contents[dir["a.json"].content].json = "invalid"
  /\ gens[1].pc = "done" /\ gens[1].applied
  /\ IsRebuildOffer(lastResult)
  /\ html.kind = "page" /\ html.body = lastResult.html

\* C16: the message returned for a malformed artifact (JSON that fails to
\* parse, no output.sources map, or an empty one) lists keys found in it.
C16_MalformedListsKeys ==
  [][\A t \in Tokens :
       ( /\ gens[t].pc = "read" /\ Completes(t)
         /\ ArtifactOf(t) # Absent
         /\ AfterParse(Contents[ArtifactOf(t).content]) \in {"stubRead", "stubSources"} )
       => lastResult'.html.detail # <<>>]_vars

\* ---- claims about the unresolvable target file
NoUnitMatches == \A i \in 1..Len(rsAsts) : ~ pathMatches(rsUnitPath(i), rsAbs, rsRel, rsSep)

\* C17: when no SourceUnit matches the target file the result is empty, shows
\* no graph, and its message lists the path of every SourceUnit.
C17_NoMatchListsUnits ==
  (rsPc = "done" /\ Len(rsAsts) > 0 /\ NoUnitMatches) =>
    /\ rsOut = 0
    /\ ~ rsResult.rejected
    /\ rsResult.html.kind = "stub" /\ rsResult.html.msg # ""
    /\ rsResult.contracts = <<>> /\ rsResult.empty
    /\ Len(rsResult.html.detail) = Len(rsAsts)
    /\ \A i \in 1..Len(rsAsts) : rsResult.html.detail[i] = rsUnitPath(i)

\* two units, neither is the target: both paths are listed
C17_Witness ==
  /\ rsPc = "done" /\ rsOut = 0 /\ Len(rsAsts) = 2
  /\ rsResult.html.kind = "stub"
  /\ rsResult.html.detail = <<rsUnitPath(1), rsUnitPath(2)>>

\* ---- claims about the toggles
\* C19: includeAll and includeDeps change only in an updateSetting step, one
\* toggle at a time; a generation that starts takes the current values; starts,
\* completions, builds and document changes leave both unchanged.
C19_TogglesPersist ==
  [][ /\ \A key \in {"includeAll", "includeDeps"} :
           settings'[key] # settings[key] =>
             /\ handle'
             /\ genToken' = genToken /\ builds' = builds /\ html' = html
             /\ lastResult' = lastResult /\ lastPrimaryContract' = lastPrimaryContract
             /\ \A other \in {"includeAll", "includeDeps"} \ {key} :
                  settings'[other] = settings[other]
      /\ \A t \in Tokens :
           (gens[t].pc = "idle" /\ gens'[t].pc # "idle") =>
             /\ gens'[t].includeAll = settings.includeAll
             /\ gens'[t].includeDeps = settings.includeDeps
             /\ settings' = settings
      /\ \A t \in Tokens : Completes(t) => settings' = settings
      /\ DOMAIN settings' = {"includeAll", "includeDeps"} ]_vars

\* includeAll was switched on, a later regeneration ran with it and its result
\* is shown with the toggle still on
C19_Witness ==
  /\ settings.includeAll /\ ~ settings.includeDeps
  /\ gens[2].pc = "done" /\ gens[2].applied
  /\ html.kind = "page" /\ html.gen = 2 /\ html.opts.includeAll /\ html.includeAll

\* ---- claims about the choice of the artifact
\* C20: findLatestBuildInfoFile returns an artifact whose modification time is
\* at least that of every other artifact, and returns none only when the
\* directory is missing or holds no .json file.
C20_LatestArtifactSelected ==
  [][\A t \in Tokens :
       (gens[t].pc = "find" /\ gens'[t].pc # "find") =>
         LET present == {f \in Files : dir[f] # Absent}
         IN IF dirExists /\ present # {}
              THEN /\ gens'[t].pc = "read"
                   /\ gens'[t].latest \in present
                   /\ \A g \in present : dir[g].mtime <= dir[gens'[t].latest].mtime
              ELSE /\ gens'[t].pc = "done"
                   /\ lastResult'.html.kind = "stub"]_vars

\* two artifacts are on the disk and the generation took the newer, b.json
C20_Witness ==
  \E t \in Tokens :
    /\ gens[t].pc = "read" /\ gens[t].latest = "b.json"
    /\ dir["a.json"] # Absent /\ dir["b.json"] # Absent
    /\ dir["a.json"].mtime < dir["b.json"].mtime

\* ---- claims about the debounce window
\* C18: a scheduled regeneration starts only when 300 ms have passed since the
\* most recent scheduling call; no run starts between two calls less than
\* 300 ms apart, and after the last call of a burst exactly one run is pending
\* or has started.
C18_DebounceWindow ==
  [][ /\ tmLog'.starts # tmLog.starts =>
           /\ tmLog.called
           /\ tmNow >= tmLog.lastCallAt + 300
           /\ tmLog.startsSinceCall = 0
           /\ tmLog'.starts = tmLog.starts + 1
      /\ (tmLog'.lastCallAt # tmLog.lastCallAt /\ tmLog.called
            /\ tmNow - tmLog.lastCallAt < 300) => tmLog.startsSinceCall = 0
      /\ tmLog'.called => /\ tmLog'.startsSinceCall <= 1
                          /\ handle' <=> tmLog'.startsSinceCall = 0 ]_vars

\* three calls, each less than 300 ms after the one before, the last at 100 ms:
\* one start, at 400 ms or later
C18_Witness ==
  /\ tmLog.called /\ tmLog.lastCallAt = 100 /\ tmLog.burst = 3
  /\ tmLog.starts = 1 /\ tmLog.startsSinceCall = 1
  /\ ~ handle /\ tmNow >= 400

\* ---- claims about the contracts of a result
\* the contract of the pass that has this name
psNamed(name) == CHOOSE c \in {psContracts[i] : i \in 1..Len(psContracts)} : c.name = name

\* C21: every contract in the contracts list of a result is of kind contract,
\* not abstract, fully implemented and lists at least one function kept by the
\* mutability filter; the errors list holds only messages of contracts whose
\* expansion threw, so a skipped contract adds none.
C21_OnlyEligibleContractsListed ==
  psPc = "done" =>
    /\ \A k \in 1..Len(psOut.contracts) :
         /\ \E i \in 1..Len(psContracts) : psContracts[i].name = psOut.contracts[k].name
         /\ psNamed(psOut.contracts[k].name).kind = "contract"
         /\ ~ psNamed(psOut.contracts[k].name).abstract
         /\ psNamed(psOut.contracts[k].name).fullyImplemented
         /\ Len(psOut.contracts[k].functions) >= 1
         /\ \A x \in 1..Len(psOut.contracts[k].functions) :
              \E f \in 1..Len(psNamed(psOut.contracts[k].name).funcs) :
                /\ psNamed(psOut.contracts[k].name).funcs[f].name = psOut.contracts[k].functions[x]
                /\ (psIncludeAll \/ StateChanging(psNamed(psOut.contracts[k].name).funcs[f]))
    /\ \A e \in 1..Len(psOut.errors) :
         \E i \in 1..Len(psContracts) :
           psIter(i) = "throw" /\ psContracts[i].errMsg = psOut.errors[e]

\* an interface, a library or an abstract contract and a contract with only
\* view functions come before a rendered contract: the result lists the
\* rendered one alone and its errors list is empty
C21_Witness ==
  /\ psPc = "done" /\ ~ psIncludeAll /\ Len(psContracts) = 3
  /\ psContracts[1] \in {IVault, Math, Base}
  /\ psContracts[2] = Views
  /\ psIter(3) = "render"
  /\ Len(psOut.contracts) = 1 /\ psOut.contracts[1].name = psContracts[3].name
  /\ psOut.errors = <<>>
\* ---- claims about what a cache hit saves
\* C22 as stated: a generation reads and JSON-parses the artifact file only
\* when the cache holds no entry for that file and its modification time.
C22_HitSkipsArtifactParse ==
  [][\A t \in Tokens :
       (gens[t].pc = "read" /\ gens'[t].pc = "stat") =>
         ~ CacheHit(astCache, gens[t].latest, dir[gens[t].latest].mtime)]_vars
\* ---- claims about the contract a result renders
\* C24: the pass never returns the 'Unknown state' fallback, and a non-empty
\* result renders the first contract in source order that is eligible, has a
\* function kept by the filter and expands without error: that contract is
\* the only entry of the contracts list and the primaryContractName, and no
\* contract after it was processed (none of them contributed an error).
C24_FirstEligibleAloneRendered ==
  psPc = "done" =>
    /\ psOut.html.kind # "unknown"
    /\ (~ psOut.empty) =>
         /\ FirstRendered # 0
         /\ psOut.html.kind = "graph"
         /\ psOut.html.contract = psContracts[FirstRendered].name
         /\ psOut.contracts =
              <<ContractEntry(psContracts[FirstRendered],
                              processContract(psContracts[FirstRendered], psIncludeAll, FALSE))>>
         /\ psOut.primaryContractName = psContracts[FirstRendered].name
         /\ \A i \in 1..Len(psContracts) :
              i > FirstRendered => ~ InSeq(psContracts[i].errMsg, psOut.errors)

\* Vault is rendered although an interface comes before it, and Broken, which
\* comes after it and would throw, left no error
C24_Witness ==
  /\ psPc = "done" /\ psContracts = <<IVault, Vault, Broken>>
  /\ ~ psOut.empty /\ psOut.primaryContractName = "Vault"
  /\ Len(psOut.contracts) = 1 /\ psOut.errors = <<>>
\* ---- claims about the checkboxes of a page
\* C25 as stated: the checkboxes of a page that shows a generation's result
\* are the includeAll / includeDeps that generation ran with.
C25_CheckboxesMatchGeneration ==
  html.kind = "page" =>
    /\ html.includeAll = html.opts.includeAll
    /\ html.includeDeps = html.opts.includeDeps
\* ---- claims about the reply to an export
\* C27 as stated, on finite runs: a handler of an exportImage message that has
\* ended has posted an exportImageResult, whatever the payload was.
C27_EveryExportAnswered ==
  ex.pc = "done" => exLog.post # "none"
\* ---- claims about the rebuild
\* C29 as stated: while the rebuild command started by runBuild is running and
\* the surface shows the 'Building project' message, no generation writes
\* its result over that message.
C29_BuildingMessageStays ==
  [][\A t \in Tokens :
       (Completes(t) /\ html.kind = "building" /\ builds > 0) => html' = html]_vars
\* C23 as stated, on finite runs: when the rebuild command started by runBuild
\* is done, with either outcome, a regeneration is scheduled.
C23_RefreshWhenBuildEnds ==
  [][builds' < builds => handle']_vars
\* ---- claims about exports handled at the same time
\* C26 as stated: no two exportImage handlers write the same target path.
C26_NoSharedTarget ==
  \A a, b \in 1..Len(cxLog) :
    cxLog[a].handler # cxLog[b].handler => cxLog[a].name # cxLog[b].name
\* ---- claims about the disposed panel
\* C28 as stated: once the panel is disposed, no generation is started and
\* the webview HTML is not assigned again.
C28_QuietAfterDispose ==
  [][disposed => (genToken' = genToken /\ html' = html)]_vars
\* ---- claims about the Contracts view
\* no save is running or armed, no watcher event waits, no reload is running
Quiescent ==
  /\ ~ isStateSaving /\ saving.pc = "idle" /\ ~ saveStateTimeout
  /\ watchEvents = 0 /\ loading.pc = "idle"

\* C30 as stated: once every save, debounced save and reload has finished, the
\* functions configured in memory and those in recon.json are the ones the
\* user enabled last.
C30_NoUpdateLost ==
  Quiescent =>
    \A signature \in Signatures :
      /\ (signature \in lastSet) <=>
           InSeq(signature, SignaturesOf(viewContracts.functionConfigs))
      /\ (signature \in lastSet) <=> InSeq(signature, SignaturesOf(reconJson.functions))
====
